---- MODULE Spec2Model ----
(***************************************************************************)
(* Model of src/ofac_mcp_sse.py: the two MCP tools get_ofac_party_info and *)
(* search_party, their argument validation, the single HTTP GET each one   *)
(* issues through its own httpx.AsyncClient, and the classification of the *)
(* remote service's answer into {status: success|error}.                   *)
(*                                                                         *)
(* Python strings are sequences of one-character strings, so that strip(), *)
(* lower(), len(), int(), str() and the [:300] slice are computed and not  *)
(* assumed.  Python / JSON values are tagged records.                      *)
(***************************************************************************)
EXTENDS Integers, Sequences, FiniteSets, TLC

\* ------------------------------------------------------------------ bounds
\* longest query string q drawn as input
MaxQLen == 3
\* limit inputs range this far around the clamp edges 0/1 and 1000
LimitDelta == 1
\* raw response bodies are drawn up to this many characters past the 300 cut
MaxBodyExtra == 1
\* number of invocations in flight at once in the concurrent specification
NumInv == 2

\* ------------------------------------------------------- program constants
\* the [:300] slice of _extract_error_message
MsgLimit == 300
\* limit = max(1, min(..., 1000)) and the default of `limit or 100`
LimitMin == 1
LimitMax == 1000
LimitDefault == 100
\* q must keep at least this many characters after strip()
MinQLen == 2

\* ---------------------------------------------------------- Python values
PyNone == [t |-> "none"]
PyBool(b) == [t |-> "bool", b |-> b]
PyInt(i) == [t |-> "int", i |-> i]
PyStr(s) == [t |-> "str", s |-> s]
PyList(l) == [t |-> "list", l |-> l]
PyDict(d) == [t |-> "dict", d |-> d]

TruthyNotNone(v) == v.t # "none"
\* bool(v): Python truthiness, as used by `x or default` and `if x:`
Truthy(v) ==
    CASE v.t = "none" -> FALSE
      [] v.t = "bool" -> v.b
      [] v.t = "int"  -> v.i # 0
      [] v.t = "str"  -> Len(v.s) > 0
      [] v.t = "list" -> Len(v.l) > 0
      [] v.t = "dict" -> DOMAIN v.d # {}

\* `v or default`
PyOr(v, default) == IF Truthy(v) THEN v ELSE default

\* type(v).__name__ as it appears in exception texts
TypeName(v) ==
    CASE v.t = "none" -> <<"N","o","n","e","T","y","p","e">>
      [] v.t = "bool" -> <<"b","o","o","l">>
      [] v.t = "int"  -> <<"i","n","t">>
      [] v.t = "str"  -> <<"s","t","r">>
      [] v.t = "list" -> <<"l","i","s","t">>
      [] v.t = "dict" -> <<"d","i","c","t">>

\* ---------------------------------------------------------------- strings
Whitespace == {" ", "\t", "\n"}

RECURSIVE LStrip(_)
LStrip(s) == IF s # <<>> /\ Head(s) \in Whitespace THEN LStrip(Tail(s)) ELSE s

RECURSIVE RStrip(_)
RStrip(s) ==
    IF s # <<>> /\ s[Len(s)] \in Whitespace
    THEN RStrip(SubSeq(s, 1, Len(s) - 1))
    ELSE s

StripLeadingOnly(s) == LStrip(s)
\* str.strip()
Strip(s) == RStrip(LStrip(s))

UpperLetters == <<"A","B","C","D","E","F","G","H","I","J","K","L","M",
                  "N","O","P","Q","R","S","T","U","V","W","X","Y","Z">>
LowerLetters == <<"a","b","c","d","e","f","g","h","i","j","k","l","m",
                  "n","o","p","q","r","s","t","u","v","w","x","y","z">>

LowerChar(c) ==
    IF \E i \in 1..26 : UpperLetters[i] = c
    THEN LowerLetters[CHOOSE i \in 1..26 : UpperLetters[i] = c]
    ELSE c

LowerNoop(s) == s
\* str.lower()
Lower(s) == [i \in 1..Len(s) |-> LowerChar(s[i])]

\* s[:n]
Take(s, n) == IF Len(s) <= n THEN s ELSE SubSeq(s, 1, n)

DigitChars == <<"0","1","2","3","4","5","6","7","8","9">>
IsDigit(c) == \E i \in 1..10 : DigitChars[i] = c
DigitVal(c) == (CHOOSE i \in 1..10 : DigitChars[i] = c) - 1

RECURSIVE NatToStr(_)
NatToStr(n) ==
    IF n < 10 THEN <<DigitChars[n + 1]>>
    ELSE NatToStr(n \div 10) \o <<DigitChars[(n % 10) + 1]>>

\* str(n) of an int
IntToStr(n) == IF n < 0 THEN <<"-">> \o NatToStr(0 - n) ELSE NatToStr(n)

RECURSIVE DigitsToNat(_)
DigitsToNat(s) ==
    IF s = <<>> THEN 0
    ELSE 10 * DigitsToNat(SubSeq(s, 1, Len(s) - 1)) + DigitVal(s[Len(s)])

\* the decimal literals int(str) accepts: optional blanks, optional sign, digits
IsIntLiteral(s) ==
    LET b == Strip(s)
        u == IF b # <<>> /\ Head(b) \in {"+", "-"} THEN Tail(b) ELSE b
    IN  u # <<>> /\ \A i \in 1..Len(u) : IsDigit(u[i])

StrToInt(s) ==
    LET b == Strip(s)
    IN  IF b # <<>> /\ Head(b) = "-" THEN 0 - DigitsToNat(Tail(b))
        ELSE IF b # <<>> /\ Head(b) = "+" THEN DigitsToNat(Tail(b))
        ELSE DigitsToNat(b)

RECURSIVE Join(_, _)
\* sep.join(parts)
Join(sep, parts) ==
    IF parts = <<>> THEN <<>>
    ELSE IF Len(parts) = 1 THEN parts[1]
    ELSE parts[1] \o sep \o Join(sep, Tail(parts))

Max(a, b) == IF a >= b THEN a ELSE b
Min(a, b) == IF a <= b THEN a ELSE b

\* ------------------------------------------------- results and exceptions
\* an evaluation either yields a value or raises
Ok(v) == [ok |-> TRUE, v |-> v]
Raise(type, msg) == [ok |-> FALSE, exc |-> [type |-> type, msg |-> msg]]

\* str(e)
StrOfExc(e) == PyStr(e.msg)

\* int(v)
PyIntOf(v) ==
    CASE v.t = "int"  -> Ok(v.i)
      [] v.t = "bool" -> Ok(IF v.b THEN 1 ELSE 0)
      [] v.t = "str"  ->
            IF IsIntLiteral(v.s) THEN Ok(StrToInt(v.s))
            ELSE Raise("ValueError",
                       <<"i","n","v","a","l","i","d"," ","l","i","t","e","r","a","l"," ",
                         "f","o","r"," ","i","n","t","(",")"," ","w","i","t","h"," ",
                         "b","a","s","e"," ","1","0",":"," ">> \o <<"'">> \o v.s \o <<"'">>)
      [] OTHER -> Raise("TypeError",
                        <<"i","n","t","(",")"," ","a","r","g","u","m","e","n","t"," ",
                          "m","u","s","t"," ","b","e"," ","a"," ","s","t","r","i","n","g",","," ",
                          "a"," ","b","y","t","e","s","-","l","i","k","e"," ",
                          "o","b","j","e","c","t"," ","o","r"," ","a"," ","r","e","a","l"," ",
                          "n","u","m","b","e","r",","," ","n","o","t"," ","'">>
                        \o TypeName(v) \o <<"'">>)

\* len(v)
PyLen(v) ==
    CASE v.t = "str"  -> Ok(Len(v.s))
      [] v.t = "list" -> Ok(Len(v.l))
      [] v.t = "dict" -> Ok(Cardinality(DOMAIN v.d))
      [] OTHER -> Raise("TypeError",
                        <<"o","b","j","e","c","t"," ","o","f"," ","t","y","p","e"," ","'">>
                        \o TypeName(v)
                        \o <<"'"," ","h","a","s"," ","n","o"," ","l","e","n","(",")">>)

\* j.get(key, default): only a dict has .get
DictGet(j, key, default) ==
    IF j.t = "dict"
    THEN Ok(IF key \in DOMAIN j.d THEN j.d[key] ELSE default)
    ELSE Raise("AttributeError",
               <<"'">> \o TypeName(j)
               \o <<"'"," ","o","b","j","e","c","t"," ","h","a","s"," ","n","o"," ",
                    "a","t","t","r","i","b","u","t","e"," ","'","g","e","t","'">>)

IsTruthy(v) == Truthy(v)
\* `x is True`: the bool True itself, not a truthy value
IsTrue(v) == v.t = "bool" /\ v.b

\* the dict a tool returns
Success(data) == [kind |-> "return", value |-> [status |-> "success", data |-> data]]
Error(msg) == [kind |-> "return", value |-> [status |-> "error", message |-> msg]]
\* an exception leaving the tool function
Escapes(exc) == [kind |-> "raise", exc |-> exc]
NoResult == [kind |-> "none"]

\* --------------------------------------------------------- module constants
ALLOWED_SCOPES ==
    { <<"a","l","l">>, <<"n","a","m","e">>, <<"a","l","i","a","s">>,
      <<"a","d","d","r","e","s","s">> }

API_ENDPOINT == "API_ENDPOINT"
SEARCH_ENDPOINT == "SEARCH_ENDPOINT"

MSG_Q_TOO_SHORT ==
    <<"q"," ","m","u","s","t"," ","b","e"," ","a","t"," ","l","e","a","s","t"," ",
      "2"," ","c","h","a","r","a","c","t","e","r","s">>
MSG_SCOPE_PREFIX ==
    <<"s","c","o","p","e"," ","m","u","s","t"," ","b","e"," ","o","n","e"," ","o","f"," ">>
MSG_API_RETURNED_ERROR ==
    <<"A","P","I"," ","r","e","t","u","r","n","e","d"," ","e","r","r","o","r">>
MSG_API_ERROR == <<"A","P","I"," ","E","r","r","o","r",":"," ">>

\* the orders in which iterating the set ALLOWED_SCOPES may yield its members
ScopeOrders ==
    { o \in [1..Cardinality(ALLOWED_SCOPES) -> ALLOWED_SCOPES] :
        \A i, j \in DOMAIN o : i # j => o[i] # o[j] }

\* f"scope must be one of {', '.join(ALLOWED_SCOPES)}"
ScopeMessage(order) == MSG_SCOPE_PREFIX \o Join(<<",", " ">>, order)

\* ------------------------------------------------------------ JSON bodies
Absent == [t |-> "absent"]
EmptyDict == PyDict([k \in {} |-> PyNone])
EmptyList == PyList(<<>>)

KeyChars(k) ==
    CASE k = "resultCd" -> <<"r","e","s","u","l","t","C","d">>
      [] k = "message"  -> <<"m","e","s","s","a","g","e">>
      [] k = "data"     -> <<"d","a","t","a">>
      [] k = "id"       -> <<"i","d">>

KeyOrder == <<"resultCd", "message", "data", "id">>

RECURSIVE Dumps(_)
\* the text of a JSON value, as the remote service writes it
Dumps(v) ==
    CASE v.t = "none" -> <<"n","u","l","l">>
      [] v.t = "bool" -> IF v.b THEN <<"t","r","u","e">> ELSE <<"f","a","l","s","e">>
      [] v.t = "int"  -> IntToStr(v.i)
      [] v.t = "str"  -> <<"\"">> \o v.s \o <<"\"">>
      [] v.t = "list" -> <<"[">> \o Join(<<",">>, [i \in 1..Len(v.l) |-> Dumps(v.l[i])])
                         \o <<"]">>
      [] v.t = "dict" ->
            LET keys == SelectSeq(KeyOrder, LAMBDA k : k \in DOMAIN v.d)
            IN  <<"{">>
                \o Join(<<",">>,
                        [i \in 1..Len(keys) |->
                            <<"\"">> \o KeyChars(keys[i]) \o <<"\"", ":">>
                            \o Dumps(v.d[keys[i]])])
                \o <<"}">>

\* a body that is JSON text, and one that is not
JsonBody(v) == [text |-> Dumps(v), json |-> Ok(v)]
RawBody(text) ==
    [text |-> text,
     json |-> Raise("JSONDecodeError",
                    <<"E","x","p","e","c","t","i","n","g"," ","v","a","l","u","e",":"," ",
                      "l","i","n","e"," ","1"," ","c","o","l","u","m","n"," ","1"," ",
                      "(","c","h","a","r"," ","0",")">>)]

\* what the remote side does to one GET: answers, or the transport fails
Response(status, body) == [kind |-> "response", status |-> status, body |-> body]
TransportError(type, msg) == [kind |-> "fail", exc |-> [type |-> type, msg |-> msg]]

\* ------------------------------------------------------ response handling
\* Response.is_success, the test inside raise_for_status()
IsSuccessStatus(status) == 200 <= status /\ status <= 299

\* r.json()
RespJson(r) == r.body.json

\* f"API Error: {resp.status_code}"
ApiErrorOf(status) == MSG_API_ERROR \o IntToStr(status)

\* f"API Error: {resp.status_code} - {resp.text}"[:300]
ApiErrorTextOf(r) ==
    Take(ApiErrorOf(r.status) \o <<" ", "-", " ">> \o r.body.text, MsgLimit)

ExtractErrorMessageUncut(r) ==
    LET data == RespJson(r)
        got  == IF data.ok
                THEN DictGet(data.v, "message", PyStr(ApiErrorOf(r.status)))
                ELSE data
    IN  IF got.ok THEN got.v
        ELSE PyStr(ApiErrorOf(r.status) \o <<" ", "-", " ">> \o r.body.text)
\* _extract_error_message(resp)
ExtractErrorMessage(r) ==
    LET data == RespJson(r)
        got  == IF data.ok
                THEN DictGet(data.v, "message", PyStr(ApiErrorOf(r.status)))
                ELSE data
    IN  IF got.ok THEN got.v ELSE PyStr(ApiErrorTextOf(r))

\* the value j.get("data", ...) falls back to: {} for the lookup, [] for the search
DataDefault(op) == IF op = "get" THEN EmptyDict ELSE EmptyList

\* the arguments of the logging call on the success path: search_party takes
\* len(data), get_ofac_party_info only formats party_id
SuccessLog(op, data) == IF op = "search" THEN PyLen(data) ELSE Ok(0)

\* the try block after the awaited GET has answered with response r, and its
\* except clauses HTTPStatusError and Exception
Classify(op, r) ==
    IF ~IsSuccessStatus(r.status)
    THEN Error(ExtractErrorMessage(r))
    ELSE LET j == RespJson(r)
         IN  IF ~j.ok THEN Error(StrOfExc(j.exc))
             ELSE LET rc == DictGet(j.v, "resultCd", PyNone)
                  IN  IF ~rc.ok THEN Error(StrOfExc(rc.exc))
                      ELSE IF IsTrue(rc.v)
                      THEN LET data == DictGet(j.v, "data", DataDefault(op)).v
                               log  == SuccessLog(op, data)
                           IN  IF ~log.ok THEN Error(StrOfExc(log.exc))
                               ELSE Success(data)
                      ELSE Error(DictGet(j.v, "message",
                                         PyStr(MSG_API_RETURNED_ERROR)).v)

\* the except clause RequestError: the GET got no response
ClassifyFailure(f) == Error(StrOfExc(f.exc))

\* -------------------------------------------------------------- validation
\* what the code of a tool before its `async with` ends in
Proceed(url, params) == [kind |-> "proceed", url |-> url, params |-> params]

\* get_ofac_party_info up to the client: params = {"partyId": str(party_id)}
GetPrepare(a) == Proceed(API_ENDPOINT, [partyId |-> PyStr(IntToStr(a.party_id.i))])

\* params["country"], params["city"], params["fuzzy"] are set only when truthy
OptionalParams(a) ==
    LET keys == {k \in {"country", "city", "fuzzy"} : Truthy(a[k])}
    IN  [k \in keys |-> IF k = "fuzzy" THEN PyStr(<<"t","r","u","e">>) ELSE a[k]]

\* whether search_party reaches the f-string that iterates ALLOWED_SCOPES
SearchRejectsScope(a) ==
    /\ Len(Strip(PyOr(a.q, PyStr(<<>>)).s)) >= MinQLen
    /\ Lower(PyOr(a.scope, PyStr(<<"a","l","l">>)).s) \notin ALLOWED_SCOPES

\* search_party up to the client; order is the iteration order of ALLOWED_SCOPES
SearchPrepare(a, order) ==
    LET q == Strip(PyOr(a.q, PyStr(<<>>)).s)
        scope == Lower(PyOr(a.scope, PyStr(<<"a","l","l">>)).s)
        lim == PyIntOf(PyOr(a.limit, PyInt(LimitDefault)))
        limit == Max(LimitMin, Min(lim.v, LimitMax))
    IN  IF Len(q) < MinQLen THEN Error(PyStr(MSG_Q_TOO_SHORT))
        ELSE IF scope \notin ALLOWED_SCOPES THEN Error(PyStr(ScopeMessage(order)))
        ELSE IF ~lim.ok THEN Escapes(lim.exc)
        ELSE Proceed(SEARCH_ENDPOINT,
                     [q |-> PyStr(q), scope |-> PyStr(scope),
                      limit |-> PyStr(IntToStr(limit))] @@ OptionalParams(a))

\* ------------------------------------------------------------------ state
VARIABLES
    pc,       \* where each invocation stands: idle, open, send, await, close, done
    args,     \* the arguments each invocation was called with
    service,  \* the repertoire of the remote service in this run: "few" or "all"
    remote,   \* what the remote side does to each invocation's GET, once issued
    prepared, \* url and params built before the client is opened
    clients,  \* every httpx.AsyncClient: new, open or closed
    cli,      \* the client an invocation holds (0: none)
    sent,     \* the GETs an invocation has issued, in order
    ret       \* how the invocation ended: a returned dict or an escaped exception

vars == <<pc, args, service, remote, prepared, clients, cli, sent, ret>>

\* --------------------------------------------------------------- inputs
QChars == {"a", " "}
RECURSIVE StringsUpTo(_, _)
StringsUpTo(chars, n) ==
    IF n = 0 THEN {<<>>}
    ELSE LET shorter == StringsUpTo(chars, n - 1)
         IN  shorter \cup {Append(s, c) : s \in shorter, c \in chars}

QInputs == {PyNone} \cup {PyStr(s) : s \in StringsUpTo(QChars, MaxQLen)}

ScopeInputs ==
    { PyNone, PyStr(<<>>), PyStr(<<"A","L","L">>), PyStr(<<"N","a","m","e">>),
      PyStr(<<"a","l","i","a","s">>), PyStr(<<"a","d","d","r","e","s","s">>),
      PyStr(<<"a","l","l"," ">>), PyStr(<<"b","o","g","u","s">>) }

CountryInputs == {PyNone, PyStr(<<>>), PyStr(<<"U","S">>)}
CityInputs == {PyNone, PyStr(<<>>), PyStr(<<"N","Y">>)}
FuzzyInputs == {PyBool(TRUE), PyBool(FALSE)}

LimitInts ==
    {-5, 50, 5000} \cup ((LimitMin - LimitDelta) .. LimitMin)
                   \cup (LimitMax .. (LimitMax + LimitDelta))
LimitInputs ==
    {PyNone} \cup {PyInt(i) : i \in LimitInts}
             \cup {PyStr(<<>>), PyStr(<<"5","0">>), PyStr(<<"a","b","c">>)}

GetCall(id) == [op |-> "get", party_id |-> id]
SearchCall(q, scope, country, city, limit, fuzzy) ==
    [op |-> "search", q |-> q, scope |-> scope, country |-> country,
     city |-> city, limit |-> limit, fuzzy |-> fuzzy]

GetCalls == {GetCall(PyInt(i)) : i \in {-1, 0, 7}}
SearchCalls ==
    { SearchCall(q, sc, co, ci, li, fz) :
        q \in QInputs, sc \in ScopeInputs, co \in CountryInputs,
        ci \in CityInputs, li \in LimitInputs, fz \in FuzzyInputs }

\* a handful of calls that between them take every path through validation
FewCalls ==
    { GetCall(PyInt(7)),
      SearchCall(PyStr(<<"a","a">>), PyNone, PyNone, PyNone, PyNone, PyBool(FALSE)),
      SearchCall(PyStr(<<"a">>), PyNone, PyNone, PyNone, PyNone, PyBool(FALSE)),
      SearchCall(PyStr(<<"a","a">>), PyStr(<<"b","o","g","u","s">>), PyNone, PyNone,
                 PyNone, PyBool(FALSE)),
      SearchCall(PyStr(<<"a","a">>), PyNone, PyNone, PyNone,
                 PyStr(<<"a","b","c">>), PyBool(FALSE)) }

\* the calls run side by side: a lookup, a search that goes through, one that
\* validation turns away and one whose limit cannot be converted
ConcurrentCalls ==
    { GetCall(PyInt(7)),
      SearchCall(PyStr(<<"a","a">>), PyNone, PyNone, PyNone, PyNone, PyBool(FALSE)),
      SearchCall(PyStr(<<"a">>), PyNone, PyNone, PyNone, PyNone, PyBool(FALSE)),
      SearchCall(PyStr(<<"a","a">>), PyNone, PyNone, PyNone,
                 PyStr(<<"a","b","c">>), PyBool(FALSE)) }

\* remote bodies
DB_DOWN == PyStr(<<"d","b"," ","d","o","w","n">>)
Party == PyDict([id |-> PyInt(7)])

ResultCdValues ==
    {Absent, PyBool(TRUE), PyBool(FALSE), PyNone, PyInt(1), PyStr(<<"t","r","u","e">>)}
MessageValues == {Absent, DB_DOWN}
DataValues == {Absent, Party, EmptyList, PyList(<<Party>>), PyNone, PyInt(5)}

\* the JSON object with the given fields, a field being left out when Absent
Envelope(rc, msg, data) ==
    LET f == [resultCd |-> rc, message |-> msg, data |-> data]
    IN  PyDict([k \in {k \in DOMAIN f : f[k] # Absent} |-> f[k]])

JsonObjects ==
    {Envelope(rc, m, d) : rc \in ResultCdValues, m \in MessageValues, d \in DataValues}
JsonOthers == {EmptyList, PyNone}

\* the raw body length at which "API Error: 500 - <body>" is exactly MsgLimit long
FitLen == MsgLimit - Len(ApiErrorOf(500) \o <<" ", "-", " ">>)
RawTexts == {[i \in 1..n |-> "x"] : n \in {0} \cup ((FitLen - 1) .. (FitLen + MaxBodyExtra))}

Bodies == {JsonBody(v) : v \in JsonObjects \cup JsonOthers} \cup {RawBody(t) : t \in RawTexts}
Statuses == {200, 299, 300, 500}

ConnectError ==
    TransportError("ConnectError",
                   <<"A","l","l"," ","c","o","n","n","e","c","t","i","o","n"," ",
                     "a","t","t","e","m","p","t","s"," ","f","a","i","l","e","d">>)
\* str() of an httpx timeout is the empty string
ReadTimeout == TransportError("ReadTimeout", <<>>)
Failures == {ConnectError, ReadTimeout}

AllRemotes == {Response(st, b) : st \in Statuses, b \in Bodies} \cup Failures

FewRemotes ==
    { Response(200, JsonBody(Envelope(PyBool(TRUE), Absent, PyList(<<Party>>)))),
      Response(500, JsonBody(Envelope(Absent, DB_DOWN, Absent))),
      Response(200, RawBody(<<>>)),
      ConnectError, ReadTimeout }

RemotesOf(repertoire) == IF repertoire = "all" THEN AllRemotes ELSE FewRemotes

\* ---------------------------------------------------------------- actions
Invocations == DOMAIN pc

InitWith(ids, calls, repertoire) ==
    /\ pc = [p \in ids |-> "idle"]
    /\ args \in [ids -> calls]
    /\ service = repertoire
    /\ remote = [p \in ids |-> NoResult]
    /\ prepared = [p \in ids |-> NoResult]
    /\ clients = [c \in ids |-> "new"]
    /\ cli = [p \in ids |-> 0]
    /\ sent = [p \in ids |-> <<>>]
    /\ ret = [p \in ids |-> NoResult]

\* the tool body from its first line to the `async with`, run without suspension
Enter(p, outcome) ==
    /\ IF outcome.kind = "proceed"
       THEN /\ pc' = [pc EXCEPT ![p] = "open"]
            /\ prepared' = [prepared EXCEPT ![p] = outcome]
            /\ ret' = ret
       ELSE /\ pc' = [pc EXCEPT ![p] = "done"]
            /\ prepared' = prepared
            /\ ret' = [ret EXCEPT ![p] = outcome]
    /\ UNCHANGED <<args, service, remote, clients, cli, sent>>

CallGet(p) ==
    /\ pc[p] = "idle"
    /\ args[p].op = "get"
    /\ Enter(p, GetPrepare(args[p]))

CallSearch(p) ==
    /\ pc[p] = "idle"
    /\ args[p].op = "search"
    /\ IF SearchRejectsScope(args[p])
       THEN \E order \in ScopeOrders : Enter(p, SearchPrepare(args[p], order))
       ELSE Enter(p, SearchPrepare(args[p], <<>>))

\* httpx.AsyncClient(): a client object constructed by, and for, this invocation
SharedClient(p) == 1
NewClient(p) == p

\* `async with httpx.AsyncClient() as client:` entered
OpenClient(p) ==
    /\ pc[p] = "open"
    /\ cli' = [cli EXCEPT ![p] = NewClient(p)]
    /\ clients' = [clients EXCEPT ![NewClient(p)] = "open"]
    /\ pc' = [pc EXCEPT ![p] = "send"]
    /\ UNCHANGED <<args, service, remote, prepared, sent, ret>>

\* client.get(url, params=params, timeout=10.0) issued; the coroutine suspends,
\* and what the remote side will do to this GET is settled
SendRequest(p) ==
    /\ pc[p] = "send"
    /\ sent' = [sent EXCEPT ![p] = Append(@, [url |-> prepared[p].url,
                                               params |-> prepared[p].params])]
    /\ \E r \in RemotesOf(service) : remote' = [remote EXCEPT ![p] = r]
    /\ pc' = [pc EXCEPT ![p] = "await"]
    /\ UNCHANGED <<args, service, prepared, clients, cli, ret>>

\* what the awaited GET resolves to: the remote side's answer, as long as the
\* client the request went through is still open
Delivered(p) ==
    IF clients[cli[p]] = "open" THEN remote[p]
    ELSE TransportError("ReadError", <<>>)

\* the GET answered: the rest of the try block, or except HTTPStatusError / Exception
Respond(p) ==
    /\ pc[p] = "await"
    /\ Delivered(p).kind = "response"
    /\ ret' = [ret EXCEPT ![p] = Classify(args[p].op, Delivered(p))]
    /\ pc' = [pc EXCEPT ![p] = "close"]
    /\ UNCHANGED <<args, service, remote, prepared, clients, cli, sent>>

TransportFailRetry(p) ==
    /\ pc[p] = "await"
    /\ Delivered(p).kind = "fail"
    /\ pc' = [pc EXCEPT ![p] = "send"]
    /\ UNCHANGED <<args, service, remote, prepared, clients, cli, sent, ret>>
\* the GET got no response (refused, DNS, timeout): except RequestError
TransportFail(p) ==
    /\ pc[p] = "await"
    /\ Delivered(p).kind = "fail"
    /\ ret' = [ret EXCEPT ![p] = ClassifyFailure(Delivered(p))]
    /\ pc' = [pc EXCEPT ![p] = "close"]
    /\ UNCHANGED <<args, service, remote, prepared, clients, cli, sent>>

\* the `async with` block left by the return statement: the client is closed
CloseClient(p) ==
    /\ pc[p] = "close"
    /\ clients' = [clients EXCEPT ![cli[p]] = "closed"]
    /\ pc' = [pc EXCEPT ![p] = "done"]
    /\ UNCHANGED <<args, service, remote, prepared, cli, sent, ret>>

Step(p) ==
    \/ CallGet(p)
    \/ CallSearch(p)
    \/ OpenClient(p)
    \/ SendRequest(p)
    \/ Respond(p)
    \/ TransportFail(p)
    \/ CloseClient(p)

Next ==
    \/ \E p \in Invocations : CallGet(p)
    \/ \E p \in Invocations : CallSearch(p)
    \/ \E p \in Invocations : OpenClient(p)
    \/ \E p \in Invocations : SendRequest(p)
    \/ \E p \in Invocations : Respond(p)
    \/ \E p \in Invocations : TransportFail(p)
    \/ \E p \in Invocations : CloseClient(p)

\* one invocation, every argument combination, a few remote behaviours
Init == InitWith({1}, GetCalls \cup SearchCalls, "few")
Spec == Init /\ [][Next]_vars

\* one invocation, a few argument combinations, every remote behaviour
InitRemote == InitWith({1}, FewCalls, "all")
SpecRemote == InitRemote /\ [][Next]_vars

\* several invocations in flight at once
InitConc == InitWith(1..NumInv, ConcurrentCalls, "few")
SpecConc == InitConc /\ [][Next]_vars

\* ------------------------------------------------- vocabulary of the claims
\* These restate what the claims call trimmed, case-insensitive, numeric, present,
\* without going through the operators that model the code.
IsSearch(p) == args[p].op = "search"
IsGet(p) == args[p].op = "get"
Done(p) == pc[p] = "done"
Requests(p) == Len(sent[p])

\* the text of an optional string argument, absent read as empty
TextOf(v) == IF v.t = "str" THEN v.s ELSE <<>>

NonBlank(s) == {i \in 1..Len(s) : s[i] \notin Whitespace}
\* s without its leading and trailing blanks
Trimmed(s) ==
    IF NonBlank(s) = {} THEN <<>>
    ELSE SubSeq(s, CHOOSE i \in NonBlank(s) : \A j \in NonBlank(s) : i <= j,
                   CHOOSE i \in NonBlank(s) : \A j \in NonBlank(s) : i >= j)
QueryLongEnough(p) == Len(Trimmed(TextOf(args[p].q))) >= 2

\* s and the lowercase word w are the same word up to letter case
SameWord(s, w) ==
    /\ Len(s) = Len(w)
    /\ \A i \in 1..Len(s) :
          \/ s[i] = w[i]
          \/ \E k \in 1..26 : UpperLetters[k] = s[i] /\ LowerLetters[k] = w[i]
AllowedWords ==
    { <<"a","l","l">>, <<"n","a","m","e">>, <<"a","l","i","a","s">>,
      <<"a","d","d","r","e","s","s">> }
ScopeNamed(s) == \E w \in AllowedWords : SameWord(s, w)
ScopeWord(s) == CHOOSE w \in AllowedWords : SameWord(s, w)

\* the scope arguments the scope check lets through: none given, or a named one
ScopePasses(p) ==
    TextOf(args[p].scope) = <<>> \/ ScopeNamed(TextOf(args[p].scope))

\* a limit argument that is a number: an int, or a string that writes one
IsNumeric(v) == v.t = "int" \/ (v.t = "str" /\ IsIntLiteral(v.s))
NumberOf(v) == IF v.t = "int" THEN v.i ELSE StrToInt(v.s)

\* a filter argument that is given and not empty
Present(v) == v.t = "str" /\ v.s # <<>>

IsOutcome(r) ==
    /\ r.kind = "return"
    /\ \/ DOMAIN r.value = {"status", "data"} /\ r.value.status = "success"
       \/ DOMAIN r.value = {"status", "message"} /\ r.value.status = "error"
IsErrorOutcome(r) == IsOutcome(r) /\ r.value.status = "error"
ScopeErrors == {Error(PyStr(ScopeMessage(order))) : order \in ScopeOrders}
IsScopeError(r) == r \in ScopeErrors

\* ------------------------------------------------------------------ claims

\* C1: every invocation of either tool, whatever its arguments (a non-numeric
\* limit included) and whatever the remote side does, ends by returning
\* {status: success, data} or {status: error, message}; no exception leaves it.
C1_AlwaysReturnsOutcome == \A p \in Invocations : Done(p) => IsOutcome(ret[p])

\* the limit the request should carry for a limit argument v
ClaimedLimit(v) ==
    IF ~IsNumeric(v) THEN 100
    ELSE IF NumberOf(v) < 1 THEN 1
    ELSE IF NumberOf(v) > 1000 THEN 1000
    ELSE NumberOf(v)
\* C2: when q and scope pass their checks, the limit forwarded is an integer in
\* [1,1000]: below 1 (0 and negatives included) forwarded as 1, above 1000 as
\* 1000, inside the range unchanged, absent or non-numeric as 100.
C2_LimitForwardedAsClaimed ==
    \A p \in Invocations :
        (IsSearch(p) /\ QueryLongEnough(p) /\ ScopePasses(p))
        => /\ Done(p) => Requests(p) = 1
           /\ \A i \in 1..Requests(p) :
                 LET l == sent[p][i].params.limit
                 IN  /\ l.t = "str" /\ IsIntLiteral(l.s)
                     /\ StrToInt(l.s) \in 1..1000
                     /\ StrToInt(l.s) = ClaimedLimit(args[p].limit)

\* C3: a q shorter than 2 characters once trimmed (absent or empty included) makes
\* search_party return the error "q must be at least 2 characters", and no HTTP
\* request is issued at any point of that invocation, whatever the other arguments.
C3_ShortQueryRejected ==
    \A p \in Invocations :
        (IsSearch(p) /\ ~QueryLongEnough(p))
        => /\ Requests(p) = 0
           /\ pc[p] \in {"idle", "done"}
           /\ Done(p) => ret[p] = Error(PyStr(MSG_Q_TOO_SHORT))
C3_Witness ==
    \E p \in Invocations :
        /\ IsSearch(p) /\ Done(p)
        /\ args[p].q = PyStr(<<" ", "a", " ">>)
        /\ args[p].scope = PyStr(<<"b","o","g","u","s">>)
        /\ args[p].limit = PyStr(<<"a","b","c">>)
        /\ ret[p] = Error(PyStr(MSG_Q_TOO_SHORT))
        /\ Requests(p) = 0

\* the scope check lets the call through, and what it sends carries the word w
ScopeForwardedAs(p, w) ==
    /\ ~IsScopeError(ret[p])
    /\ \A i \in 1..Requests(p) : sent[p][i].params.scope = PyStr(w)
ScopeRefused(p) ==
    /\ Requests(p) = 0
    /\ pc[p] \in {"idle", "done"}
    /\ Done(p) => IsScopeError(ret[p])
\* C4 as stated: with a valid q, a scope that is one of all, name, alias, address
\* up to letter case is accepted and forwarded in lowercase, an absent scope is
\* forwarded as "all"; any other scope yields an error that lists the allowed
\* set, and no HTTP request is issued.
C4_ScopeAsStated ==
    \A p \in Invocations :
        (IsSearch(p) /\ QueryLongEnough(p))
        => IF args[p].scope.t = "none" THEN ScopeForwardedAs(p, <<"a","l","l">>)
           ELSE IF ScopeNamed(args[p].scope.s)
                THEN ScopeForwardedAs(p, ScopeWord(args[p].scope.s))
                ELSE ScopeRefused(p)

\* C4 as the code has it: as stated, except that an empty scope string counts as
\* absent: it too is forwarded as "all" and is not refused.
C4_ScopeChecked ==
    \A p \in Invocations :
        (IsSearch(p) /\ QueryLongEnough(p))
        => IF TextOf(args[p].scope) = <<>> THEN ScopeForwardedAs(p, <<"a","l","l">>)
           ELSE IF ScopeNamed(args[p].scope.s)
                THEN ScopeForwardedAs(p, ScopeWord(args[p].scope.s))
                ELSE ScopeRefused(p)
C4_Witness ==
    \E p \in Invocations :
        /\ IsSearch(p) /\ Done(p) /\ QueryLongEnough(p)
        /\ args[p].scope = PyStr(<<"A","L","L">>)
        /\ Requests(p) = 1
        /\ sent[p][1].params.scope = PyStr(<<"a","l","l">>)

\* the parameter names a search with arguments a should send
ClaimedKeys(a) ==
    {"q", "scope", "limit"}
        \cup (IF Present(a.country) THEN {"country"} ELSE {})
        \cup (IF Present(a.city) THEN {"city"} ELSE {})
        \cup (IF a.fuzzy = PyBool(TRUE) THEN {"fuzzy"} ELSE {})
\* C5: a search that passes validation sends exactly q (trimmed), scope and limit,
\* plus country iff country is non-empty, plus city iff city is non-empty, plus
\* fuzzy="true" iff the fuzzy flag is true; an empty or absent filter and a false
\* fuzzy flag never appear.
C5_ExactParams ==
    \A p \in Invocations :
        IsSearch(p) =>
            \A i \in 1..Requests(p) :
                LET ps == sent[p][i].params
                IN  /\ DOMAIN ps = ClaimedKeys(args[p])
                    /\ ps.q = PyStr(Trimmed(TextOf(args[p].q)))
                    /\ "country" \in DOMAIN ps => ps.country = args[p].country
                    /\ "city" \in DOMAIN ps => ps.city = args[p].city
                    /\ "fuzzy" \in DOMAIN ps => ps.fuzzy = PyStr(<<"t","r","u","e">>)
\* q="aa", country="", city="NY": q, scope=all, limit=100 and city are sent, only
C5_Witness ==
    \E p \in Invocations :
        /\ IsSearch(p) /\ Requests(p) = 1
        /\ args[p].q = PyStr(<<" ","a","a">>)
        /\ args[p].scope = PyNone /\ args[p].limit = PyNone
        /\ args[p].country = PyStr(<<>>)
        /\ args[p].city = PyStr(<<"N","Y">>)
        /\ args[p].fuzzy = PyBool(FALSE)
        /\ sent[p][1].params =
              [q |-> PyStr(<<"a","a">>), scope |-> PyStr(<<"a","l","l">>),
               limit |-> PyStr(<<"1","0","0">>), city |-> PyStr(<<"N","Y">>)]

\* validation is the block of search_party before the request is built: the q
\* check, the scope check and the conversion of limit to an integer
LimitConverts(p) == TextOf(args[p].limit) = <<>> \/ IsNumeric(args[p].limit)
PassesValidation(p) ==
    IsGet(p) \/ (QueryLongEnough(p) /\ ScopePasses(p) /\ LimitConverts(p))
\* C9: an invocation issues at most one GET over its lifetime, and exactly one
\* when validation passes (the lookup always, for any identifier); when that one
\* attempt fails in transport, or in any other way, the invocation returns the
\* error outcome carrying the failure's description and issues no second request.
C9_SingleAttempt ==
    \A p \in Invocations :
        /\ Requests(p) <= 1
        /\ Done(p) => Requests(p) = (IF PassesValidation(p) THEN 1 ELSE 0)
        /\ (Done(p) /\ remote[p].kind = "fail")
               => ret[p] = Error(PyStr(remote[p].exc.msg))
        /\ (Done(p) /\ remote[p].kind = "response" /\ ~remote[p].body.json.ok)
               => IsErrorOutcome(ret[p])
C9_Witness ==
    \E p \in Invocations :
        /\ Done(p) /\ Requests(p) = 1
        /\ remote[p] = ConnectError
        /\ ret[p] = Error(PyStr(ConnectError.exc.msg))

\* ------------------------------------- vocabulary of the claims: the answer
Answered(p) == Done(p) /\ remote[p].kind = "response"
Is2xx(r) == r.status \in 200..299
IsObject(r) == r.body.json.ok /\ r.body.json.v.t = "dict"
Fields(r) == r.body.json.v.d
HasField(r, k) == k \in DOMAIN Fields(r)
ResultCdIsTrue(r) == HasField(r, "resultCd") /\ Fields(r).resultCd = PyBool(TRUE)

\* "API Error: <status> - <raw body>", cut to its first 300 characters
StatusAndBody(r) ==
    LET full == MSG_API_ERROR \o IntToStr(r.status) \o <<" ", "-", " ">> \o r.body.text
    IN  SubSeq(full, 1, IF Len(full) > 300 THEN 300 ELSE Len(full))

\* C6: for both tools, a 2xx answer whose JSON body has resultCd boolean true gives
\* the success outcome whose payload is the body's data field, whatever that value
\* is ({} for the lookup and [] for the search when the field is absent).
C6_SuccessAsStated ==
    \A p \in Invocations :
        (Answered(p) /\ Is2xx(remote[p]) /\ IsObject(remote[p])
                     /\ ResultCdIsTrue(remote[p]))
        => ret[p] = Success(IF HasField(remote[p], "data") THEN Fields(remote[p]).data
                            ELSE IF IsGet(p) THEN EmptyDict ELSE EmptyList)

\* C7 as stated: for both tools, a non-2xx answer gives the error outcome whatever
\* resultCd or data the body holds; the message is the body's message field when
\* the body is a JSON object that has one, and otherwise the composite of status
\* code and raw body text, of at most 300 characters.
C7_HttpErrorAsStated ==
    \A p \in Invocations :
        (Answered(p) /\ ~Is2xx(remote[p]))
        => ret[p] = Error(IF IsObject(remote[p]) /\ HasField(remote[p], "message")
                          THEN Fields(remote[p]).message
                          ELSE PyStr(StatusAndBody(remote[p])))

\* C7 as the code has it: as stated, except that a body which is a JSON object without a
\* message field gives the message "API Error: <status>", the status code alone;
\* the composite with the raw body text, cut to 300 characters, is the message
\* only when the body is not a JSON object.
C7_HttpError ==
    \A p \in Invocations :
        (Answered(p) /\ ~Is2xx(remote[p]))
        => ret[p] = Error(IF IsObject(remote[p])
                          THEN IF HasField(remote[p], "message")
                               THEN Fields(remote[p]).message
                               ELSE PyStr(MSG_API_ERROR \o IntToStr(remote[p].status))
                          ELSE PyStr(StatusAndBody(remote[p])))
\* HTTP 500 with body {"message": "db down"} gives the message "db down"
C7_Witness ==
    \E p \in Invocations :
        /\ Answered(p)
        /\ remote[p] = Response(500, JsonBody(Envelope(Absent, DB_DOWN, Absent)))
        /\ ret[p] = Error(DB_DOWN)

\* C8: for both tools, a 2xx answer whose JSON object has a resultCd that is not
\* boolean true (false, absent, null, 1, "true") gives the error outcome, never
\* success; its message is the body's message field, or "API returned error"
\* when there is none.
C8_BusinessError ==
    \A p \in Invocations :
        (Answered(p) /\ Is2xx(remote[p]) /\ IsObject(remote[p])
                     /\ ~ResultCdIsTrue(remote[p]))
        => ret[p] = Error(IF HasField(remote[p], "message")
                          THEN Fields(remote[p]).message
                          ELSE PyStr(MSG_API_RETURNED_ERROR))
C8_Witness ==
    \E p \in Invocations :
        /\ Answered(p) /\ IsSearch(p)
        /\ remote[p] = Response(200, JsonBody(Envelope(PyInt(1), Absent, EmptyList)))
        /\ ret[p] = Error(PyStr(MSG_API_RETURNED_ERROR))

\* what a call with arguments a ends in when it runs alone and the remote side
\* does r to its GET
SoloOutcomes(a, r) ==
    LET before == IF a.op = "get" THEN {GetPrepare(a)}
                  ELSE IF SearchRejectsScope(a)
                  THEN {SearchPrepare(a, order) : order \in ScopeOrders}
                  ELSE {SearchPrepare(a, <<>>)}
    IN  { IF b.kind # "proceed" THEN b
          ELSE IF r.kind = "response" THEN Classify(a.op, r)
          ELSE ClassifyFailure(r) : b \in before }
\* C10: in every interleaving of concurrent invocations, each invocation uses its
\* own HTTP client, opened inside the call and closed by the time the call
\* returns on every exit path; its outcome is the one it would produce running
\* alone with the same arguments and the same remote response; and an invocation
\* suspended awaiting its response never keeps another from taking its next step.
C10_Isolated ==
    \A p \in Invocations :
        /\ pc[p] \in {"idle", "open"} => cli[p] = 0
        /\ pc[p] \in {"send", "await", "close"}
              => cli[p] # 0 /\ clients[cli[p]] = "open"
        /\ Done(p) => (cli[p] = 0 \/ clients[cli[p]] = "closed")
        /\ Done(p) => ret[p] \in SoloOutcomes(args[p], remote[p])
        /\ \A q \in Invocations \ {p} :
              /\ cli[p] # 0 => cli[q] # cli[p]
              /\ (pc[p] = "await" /\ ~Done(q)) => ENABLED Step(q)
\* one invocation has completed, its client closed, while another is still
\* suspended on its own open client
C10_Witness ==
    \E p, q \in Invocations :
        /\ p # q
        /\ pc[p] = "await" /\ clients[cli[p]] = "open"
        /\ Done(q) /\ cli[q] # 0 /\ clients[cli[q]] = "closed"
        /\ IsOutcome(ret[q]) /\ ret[q].value.status = "success"

====
